---- MODULE Spec2Model ----
(***************************************************************************)
(* A model of market.py: the auction collector (find_auctions,            *)
(* Auction.create, Profession.find), the skill enricher (update_skills),   *)
(* the exporter (save_auctions_to) and main.                               *)
(*                                                                         *)
(* Texts are sequences of one-character strings, so that split(' '),       *)
(* int(...), str(...) and the substring test `in` are computed.            *)
(* An optional value (Python None or a value) is <<>> or <<v>>.            *)
(***************************************************************************)
EXTENDS Integers, Sequences, FiniteSets, TLC

VARIABLES
    pc,                  \* position in main
    browser,             \* "none", "open" or "quit"
    quits,               \* number of browser.quit() calls
    listing,             \* the rows of the auction page (the site's answer)
    auctions,            \* main's `auctions` list (<<>> until collected)
    character_map,       \* update_skills: name -> character (index)
    skill_character_map, \* update_skills: skill -> set of names
    skill_i,             \* position of the for loop over SKILL_URL_MAP.items()
    page_number,         \* update_skills: page_number
    watch,               \* the skill whose leaderboard is observed (any of the six)
    fetches,             \* log of the browser.get calls for the auction page and for
                         \* the pages of `watch`: the URLs, in call order
    held,                \* whether each page fetched for `watch` held data rows
    lastData,            \* per name: the value of its last data row fetched for `watch`
    err,                 \* the exception propagating out of main ("" if none)
    written,             \* the to_excel / to_csv calls: path, format and table
    console,             \* tables printed
    saveCalls,           \* number of save_auctions_to calls
    args,                \* the (excel_file, csv_file) of a save_auctions_to call
    row,                 \* the row handed to Auction.create
    origin,              \* the tuple a row was built from (<<>> if none)
    created              \* what Auction.create gave, once called

vars == <<pc, browser, quits, listing, auctions, character_map, skill_character_map,
          skill_i, page_number, fetches, watch, held, lastData, err, written, console, saveCalls,
          args, row, origin, created>>

mainVars == <<pc, browser, quits, listing, auctions, character_map, skill_character_map,
              skill_i, page_number, fetches, watch, held, lastData, err, written, console, saveCalls>>

-----------------------------------------------------------------------------
(* Bounds of the model *)

MaxAuctions == 2   \* rows on the auction page
MaxPages == 1      \* pages of a leaderboard that may hold rows
MaxRows == 2       \* data rows on a leaderboard page
MaxSaved == 2      \* auctions handed to a stand-alone save_auctions_to call

-----------------------------------------------------------------------------
(* Optional values *)

None == <<>>

Some(v) == <<v>>

-----------------------------------------------------------------------------
(* Texts *)

SPACE == " "

Digits == <<"0", "1", "2", "3", "4", "5", "6", "7", "8", "9">>

IsDigit(c) == \E d \in 1..10 : Digits[d] = c

DigitValue(c) == (CHOOSE d \in 1..10 : Digits[d] = c) - 1

\* str(n) of a non-negative int
RECURSIVE str(_)
str(n) == IF n < 10 THEN <<Digits[n + 1]>> ELSE str(n \div 10) \o <<Digits[(n % 10) + 1]>>

RECURSIVE DigitsValue(_)
DigitsValue(t) ==
    IF t = <<>> THEN 0
    ELSE 10 * DigitsValue(SubSeq(t, 1, Len(t) - 1)) + DigitValue(t[Len(t)])

\* What a call gives: the value it returns, or the exception it raises
Return(v) == [exc |-> "", value |-> <<v>>]

Raise(e) == [exc |-> e, value |-> <<>>]

Raised(r) == r.exc # ""

ValueOf(r) == r.value[1]

\* int(text) over the texts of the model (letters, digits, spaces): the value of a
\* non-empty run of digits, ValueError otherwise
int(t) ==
    IF t # <<>> /\ \A i \in 1..Len(t) : IsDigit(t[i])
    THEN Return(DigitsValue(t))
    ELSE Raise("ValueError")

\* text.split(' ')[0]: the text before the first space
FirstToken(t) ==
    IF \E i \in 1..Len(t) : t[i] = SPACE
    THEN SubSeq(t, 1, (CHOOSE i \in 1..Len(t) : t[i] = SPACE /\ \A j \in 1..(i - 1) : t[j] # SPACE) - 1)
    ELSE t

\* sub in text
Contains(text, sub) ==
    \/ sub = <<>>
    \/ \E i \in 0..(Len(text) - Len(sub)) :
        text[i + 1] = sub[1] /\ SubSeq(text, i + 1, i + Len(sub)) = sub

-----------------------------------------------------------------------------
(* Skill and Profession *)

Skills == {"MAGIC", "SHIELDING", "DISTANCE", "CLUB", "SWORD", "AXE"}

Professions == {"KNIGHT", "SORCERER", "DRUID", "PALADIN"}

\* Profession.<NAME>.value
Profession_value(p) ==
    CASE p = "KNIGHT" -> <<"K", "n", "i", "g", "h", "t">>
      [] p = "SORCERER" -> <<"S", "o", "r", "c", "e", "r", "e", "r">>
      [] p = "DRUID" -> <<"D", "r", "u", "i", "d">>
      [] p = "PALADIN" -> <<"P", "a", "l", "a", "d", "i", "n">>

Profession_values == <<"KNIGHT", "SORCERER", "DRUID", "PALADIN">>

\* a plausible slip: a default instead of StopIteration when nothing matches
Profession_find_default(text) ==
    LET found == SelectSeq(Profession_values, LAMBDA p : Contains(text, Profession_value(p)))
    IN  IF found = <<>> THEN Return("KNIGHT") ELSE Return(Head(found))

\* a plausible slip: the last match instead of the first
Profession_find_last(text) ==
    LET found == SelectSeq(Profession_values, LAMBDA p : Contains(text, Profession_value(p)))
    IN  IF found = <<>> THEN Raise("StopIteration") ELSE Return(found[Len(found)])

\* next(filter(lambda p: p.value in text, Profession.values()))
Profession_find(text) ==
    LET found == SelectSeq(Profession_values, LAMBDA p : Contains(text, Profession_value(p)))
    IN  IF found = <<>> THEN Raise("StopIteration") ELSE Return(Head(found))

-----------------------------------------------------------------------------
(* Character and Auction *)

NoSkills == [s \in {} |-> 0]

\* Character.__init__
Character(name, profession, lvl) ==
    [name |-> name, profession |-> profession, lvl |-> lvl, skills |-> NoSkills]

\* Auction.__init__
Auction(character, price) == [character |-> character, price |-> price]

_NAME_ID == 0

_LVL_PROFESSION_ID == 1

_PRICE_ID == 2

\* Auction.create, on the texts of the row's td cells; the first statement that
\* raises decides the exception
Auction_create(cols) ==
    LET name == cols[_NAME_ID + 1]
        lvl_profession_raw == cols[_LVL_PROFESSION_ID + 1]
        lvl == int(FirstToken(lvl_profession_raw))
        profession == Profession_find(lvl_profession_raw)
        price == int(FirstToken(cols[_PRICE_ID + 1]))
    IN  IF Raised(lvl) THEN Raise(lvl.exc)
        ELSE IF Raised(profession) THEN Raise(profession.exc)
        ELSE IF Raised(price) THEN Raise(price.exc)
        ELSE Return(Auction(Character(name, ValueOf(profession), ValueOf(lvl)), ValueOf(price)))

\* find_auctions' list comprehension over the rows: the Auctions, or the exception
\* of the first row that raises
RECURSIVE CreateAll(_)
CreateAll(rows) ==
    IF rows = <<>> THEN Return(<<>>)
    ELSE LET first == Auction_create(Head(rows))
         IN  IF Raised(first) THEN Raise(first.exc)
             ELSE LET rest == CreateAll(Tail(rows))
                  IN  IF Raised(rest) THEN Raise(rest.exc)
                      ELSE Return(<<ValueOf(first)>> \o ValueOf(rest))

-----------------------------------------------------------------------------
(* The static tables *)

PROFESSION_SKILL_MAP(p) ==
    CASE p = "DRUID" -> <<"MAGIC">>
      [] p = "SORCERER" -> <<"MAGIC">>
      [] p = "KNIGHT" -> <<"SWORD", "AXE", "CLUB">>
      [] p = "PALADIN" -> <<"DISTANCE", "MAGIC">>

\* the keys of SKILL_URL_MAP in the order .items() yields them
SKILL_URL_MAP_keys == <<"MAGIC", "SHIELDING", "DISTANCE", "SWORD", "AXE", "CLUB">>

\* the URL template of a skill, without the host and the {page} slot
SKILL_URL_MAP(skill) ==
    CASE skill = "MAGIC" -> "charts/highscores/magic/all/"
      [] skill = "SHIELDING" -> "charts/highscores/shielding/all/"
      [] skill = "DISTANCE" -> "charts/highscores/distance/all/"
      [] skill = "SWORD" -> "charts/highscores/sword/knight/"
      [] skill = "AXE" -> "charts/highscores/axe/knight/"
      [] skill = "CLUB" -> "charts/highscores/club/knight/"

AUCTIONS_URL_TEMPLATE == "auction"

Range(f) == {f[i] : i \in DOMAIN f}

\* the skills of a profession, as a set
SkillsOf(p) == Range(PROFESSION_SKILL_MAP(p))

-----------------------------------------------------------------------------
(* What the site may answer *)

Aria == <<"A", "r", "i", "a">>

Bo == <<"B", "o">>

Names == {Aria, Bo}

Gold == <<"g", "o", "l", "d">>

Text_120_Elite_Knight ==
    <<"1", "2", "0", " ", "E", "l", "i", "t", "e", " ">> \o Profession_value("KNIGHT")

Text_7_Paladin_Druid ==
    <<"7", " ">> \o Profession_value("PALADIN") \o <<" ">> \o Profession_value("DRUID")

Text_9_Royal_Paladin ==
    <<"9", " ", "R", "o", "y", "a", "l", " ">> \o Profession_value("PALADIN")

Text_12_Rookie == <<"1", "2", " ", "R", "o", "o", "k", "i", "e">>

Text_x_Knight == <<"x", " ">> \o Profession_value("KNIGHT")

\* the rows an auction page may hold: the td texts (name, level+profession, price)
ListingRows ==
    { <<Aria, Text_120_Elite_Knight, <<"5", "0", "0", "0", " ">> \o Gold>>,
      <<Aria, Text_7_Paladin_Druid, <<"1", "0", " ">> \o Gold>>,
      <<Bo, Text_9_Royal_Paladin, <<"1", " ">> \o Gold>>,
      <<Bo, Text_12_Rookie, <<"3", " ">> \o Gold>>,
      <<Aria, Text_x_Knight, <<"4", " ">> \o Gold>> }

SeqsUpTo(S, n) == UNION {[1..k -> S] : k \in 0..n}

\* the data rows a leaderboard may hold

\* a tr of a leaderboard: the texts of its cells (rank, name link, value)
HeaderRow == [header |-> TRUE, cols |-> <<<<"#">>, <<"N">>, <<"V">>>>]

DataRow(name, value) == [header |-> FALSE, cols |-> <<<<"1">>, name, value>>]

DataRows == {DataRow(Aria, <<"4", "5">>), DataRow(Bo, <<"7">>)}

\* the tr rows of a leaderboard's tbody: a header row or none, then data rows
Pages(maxData) ==
    {h \o d : h \in {<<>>, <<HeaderRow>>}, d \in SeqsUpTo(DataRows, maxData)}

\* the data rows of a page
DataOf(page) == SelectSeq(page, LAMBDA r : ~r.header)

-----------------------------------------------------------------------------
(* update_skills *)

HIGHSCORES_NAME_ID == 1

HIGHSCORES_VALUE_ID == 2

\* character_map after the first loop: the last character of each name
character_map_of(characters) ==
    [n \in {characters[i].character.name : i \in DOMAIN characters} |->
        CHOOSE i \in DOMAIN characters :
            /\ characters[i].character.name = n
            /\ \A j \in DOMAIN characters : characters[j].character.name = n => j <= i]

\* skill_character_map after the first loop (a defaultdict: only the skills added to)
skill_character_map_of(characters) ==
    LET added == UNION {SkillsOf(characters[i].character.profession) : i \in DOMAIN characters}
    IN  [s \in added |->
            {characters[i].character.name :
                i \in {j \in DOMAIN characters : s \in SkillsOf(characters[j].character.profession)}}]

\* skill_character_map.get(skill): None (here the empty set, as falsy) for a missing key
GetPending(scm, skill) == IF skill \in DOMAIN scm THEN scm[skill] ELSE {}

\* a plausible slip: the `continue` of an empty pending set left out
ToUpdate_always(scm, skill) == TRUE

\* not (not characters_to_update)
ToUpdate(scm, skill) == GetPending(scm, skill) # {}

\* character.skills[skill] = value
SetSkill(aucs, i, skill, value) ==
    [aucs EXCEPT ![i].character.skills =
        [s \in (DOMAIN @) \cup {skill} |-> IF s = skill THEN value ELSE @[s]]]

\* find_highscores_rows(browser)[1:]
HighscoreRows(trs) == IF trs = <<>> THEN <<>> ELSE Tail(trs)

\* a plausible slip: no test that the name is pending for the skill
RECURSIVE ScanRows_unfiltered(_, _, _, _, _)
ScanRows_unfiltered(rows, skill, characters_to_update, cmap, aucs) ==
    IF rows = <<>> THEN [exc |-> "", auctions |-> aucs]
    ELSE LET cols == Head(rows).cols
             name == cols[HIGHSCORES_NAME_ID + 1]
             value == int(cols[HIGHSCORES_VALUE_ID + 1])
         IN  IF Raised(value) THEN [exc |-> value.exc, auctions |-> aucs]
             ELSE ScanRows_unfiltered(Tail(rows), skill, characters_to_update, cmap,
                                      IF name \in DOMAIN cmap
                                      THEN SetSkill(aucs, cmap[name], skill, ValueOf(value))
                                      ELSE aucs)

\* the for loop over the rows of one page: the characters after it, and the
\* exception that ended it, if any
RECURSIVE ScanRows(_, _, _, _, _)
ScanRows(rows, skill, characters_to_update, cmap, aucs) ==
    IF rows = <<>> THEN [exc |-> "", auctions |-> aucs]
    ELSE LET cols == Head(rows).cols
             name == cols[HIGHSCORES_NAME_ID + 1]
             value == int(cols[HIGHSCORES_VALUE_ID + 1])
         IN  IF Raised(value) THEN [exc |-> value.exc, auctions |-> aucs]
             ELSE ScanRows(Tail(rows), skill, characters_to_update, cmap,
                           IF name \in characters_to_update
                           THEN SetSkill(aucs, cmap[name], skill, ValueOf(value))
                           ELSE aucs)

\* url.replace('{page}', str(page_number))
PageUrl(skill, n) == <<SKILL_URL_MAP(skill), str(n)>>

\* the last value each name has on the data rows of the pages fetched
RECURSIVE Noted(_, _)
Noted(last, data) ==
    IF data = <<>> THEN last
    ELSE LET cols == Head(data).cols
             value == int(cols[HIGHSCORES_VALUE_ID + 1])
         IN  Noted(IF Raised(value) THEN last
                   ELSE [last EXCEPT ![cols[HIGHSCORES_NAME_ID + 1]] = Some(ValueOf(value))],
                   Tail(data))

-----------------------------------------------------------------------------
(* save_auctions_to *)

headers ==
    <<"name", "price", "profession", "lvl", "sword", "axe", "club", "dist", "magic", "shielding">>

\* a plausible slip: 0 for a missing key
skills_get_zero(skills, skill) == IF skill \in DOMAIN skills THEN Some(skills[skill]) ELSE Some(0)

\* skills.get(skill)
skills_get(skills, skill) == IF skill \in DOMAIN skills THEN Some(skills[skill]) ELSE None

\* map_auction; character.profession.name is the member's name
map_auction(auction) ==
    LET character == auction.character
        skills == character.skills
    IN  << character.name,
           auction.price,
           character.profession,
           character.lvl,
           skills_get(skills, "SWORD"),
           skills_get(skills, "AXE"),
           skills_get(skills, "CLUB"),
           skills_get(skills, "DISTANCE"),
           skills_get(skills, "MAGIC"),
           skills_get(skills, "SHIELDING") >>

\* a plausible slip: the rows sorted by price
DataFrame_sorted(aucs) ==
    [columns |-> headers,
     data |-> IF Len(aucs) = 2 /\ aucs[1].price > aucs[2].price
              THEN <<map_auction(aucs[2]), map_auction(aucs[1])>>
              ELSE [i \in DOMAIN aucs |-> map_auction(aucs[i])]]

\* pd.DataFrame(list(map(map_auction, auctions)), columns=headers)
DataFrame(aucs) ==
    [columns |-> headers, data |-> [i \in DOMAIN aucs |-> map_auction(aucs[i])]]

\* the truth value of a path argument: None and '' are false
Truthy(path) == path # None /\ path[1] # ""

\* save_auctions_to without failure: the to_excel / to_csv calls and the prints
save_auctions_to(aucs, excel_file, csv_file) ==
    LET data_frame == DataFrame(aucs)
    IN  [written |->
            (IF Truthy(excel_file)
             THEN <<[path |-> excel_file[1], format |-> "excel", frame |-> data_frame]>>
             ELSE <<>>)
            \o
            (IF Truthy(csv_file)
             THEN <<[path |-> csv_file[1], format |-> "csv", frame |-> data_frame]>>
             ELSE <<>>),
         console |->
            IF ~Truthy(csv_file) /\ ~Truthy(excel_file) THEN <<data_frame>> ELSE <<>>]

-----------------------------------------------------------------------------
(* main *)

NoLast == [n \in Names |-> None]

\* the state before main runs, whatever the auction page will hold
Fresh ==
    /\ pc = "start"
    /\ browser = "none"
    /\ quits = 0
    /\ character_map = <<>>
    /\ skill_character_map = <<>>
    /\ skill_i = 0
    /\ page_number = 0
    /\ fetches = <<>>
    /\ held = <<>>
    /\ lastData = NoLast
    /\ err = ""
    /\ written = <<>>
    /\ console = <<>>
    /\ saveCalls = 0

NoCall == args = <<>> /\ row = <<>> /\ origin = <<>> /\ created = <<>>

Init ==
    /\ Fresh
    /\ NoCall
    /\ auctions = <<>>
    /\ listing \in SeqsUpTo(ListingRows, MaxAuctions)
    /\ watch \in Skills

\* browser = webdriver.Firefox(...)
Start ==
    /\ pc = "start"
    /\ browser' = "open"
    /\ pc' = "find_auctions"
    /\ UNCHANGED <<quits, listing, auctions, character_map, skill_character_map, skill_i,
                   page_number, fetches, watch, held, lastData, err, written, console, saveCalls,
                   args, row, origin, created>>

\* webdriver.Firefox raises: main is left before the try
StartFails ==
    /\ pc = "start"
    /\ err' = "WebDriverException"
    /\ pc' = "done"
    /\ UNCHANGED <<browser, quits, listing, auctions, character_map, skill_character_map,
                   skill_i, page_number, fetches, watch, held, lastData, written, console, saveCalls,
                   args, row, origin, created>>

\* find_auctions returns the Auctions
FindAuctions ==
    /\ pc = "find_auctions"
    /\ fetches' = Append(fetches, <<AUCTIONS_URL_TEMPLATE, <<>>>>)
    /\ LET made == CreateAll(listing)
       IN  IF Raised(made)
           THEN /\ err' = made.exc
                /\ pc' = "finally"
                /\ UNCHANGED auctions
           ELSE /\ auctions' = ValueOf(made)
                /\ pc' = "update_skills"
                /\ UNCHANGED err
    /\ UNCHANGED <<browser, quits, listing, character_map, skill_character_map, skill_i,
                   page_number, watch, held, lastData, written, console, saveCalls,
                   args, row, origin, created>>

\* browser.get or a find_element of find_auctions raises
FindAuctionsFails ==
    /\ pc = "find_auctions"
    /\ fetches' = Append(fetches, <<AUCTIONS_URL_TEMPLATE, <<>>>>)
    /\ err' = "WebDriverException"
    /\ pc' = "finally"
    /\ UNCHANGED <<browser, quits, listing, auctions, character_map, skill_character_map,
                   skill_i, page_number, watch, held, lastData, written, console, saveCalls,
                   args, row, origin, created>>

\* update_skills, lines 104-112: the indexes
BuildIndex ==
    /\ pc = "update_skills"
    /\ character_map' = character_map_of(auctions)
    /\ skill_character_map' = skill_character_map_of(auctions)
    /\ skill_i' = 1
    /\ pc' = "for_skill"
    /\ UNCHANGED <<browser, quits, listing, auctions, page_number, fetches, watch, held, lastData, err,
                   written, console, saveCalls, args, row, origin, created>>

\* the for loop over SKILL_URL_MAP.items(): its end, a skipped skill, or page 0 next
ForSkill ==
    /\ pc = "for_skill"
    /\ IF skill_i > Len(SKILL_URL_MAP_keys)
       THEN /\ pc' = "save_auctions_to"
            /\ UNCHANGED <<skill_i, page_number>>
       ELSE IF ~ToUpdate(skill_character_map, SKILL_URL_MAP_keys[skill_i])
       THEN /\ skill_i' = skill_i + 1
            /\ UNCHANGED <<pc, page_number>>
       ELSE /\ page_number' = 0
            /\ pc' = "while_page"
            /\ UNCHANGED skill_i
    /\ UNCHANGED <<browser, quits, listing, auctions, character_map, skill_character_map,
                   fetches, watch, held, lastData, err, written, console, saveCalls,
                   args, row, origin, created>>

\* the pages the site may answer with: none with data rows past MaxPages
PagesAt(n) == IF n < MaxPages THEN Pages(MaxRows) ELSE Pages(0)

\* one turn of the while loop: the page is fetched and its rows are scanned
FetchPage ==
    /\ pc = "while_page"
    /\ \E trs \in PagesAt(page_number) :
        LET skill == SKILL_URL_MAP_keys[skill_i]
            rows == HighscoreRows(trs)
            scanned == ScanRows(rows, skill, GetPending(skill_character_map, skill),
                                character_map, auctions)
        IN  /\ IF skill = watch
               THEN /\ fetches' = Append(fetches, PageUrl(skill, page_number))
                    /\ held' = Append(held, DataOf(trs) # <<>>)
                    /\ lastData' = Noted(lastData, DataOf(trs))
               ELSE UNCHANGED <<fetches, held, lastData>>
            /\ IF Len(rows) = 0
               THEN /\ skill_i' = skill_i + 1
                    /\ pc' = "for_skill"
                    /\ UNCHANGED <<auctions, page_number, err>>
               ELSE /\ auctions' = scanned.auctions
                    /\ IF scanned.exc # ""
                       THEN /\ err' = scanned.exc
                            /\ pc' = "finally"
                            /\ UNCHANGED <<skill_i, page_number>>
                       ELSE /\ page_number' = page_number + 1
                            /\ UNCHANGED <<skill_i, pc, err>>
    /\ UNCHANGED <<browser, quits, listing, character_map, skill_character_map, watch,
                   written, console, saveCalls, args, row, origin, created>>

\* a plausible slip: the failed fetch is tried again
FetchPageFails_retry ==
    /\ pc = "while_page"
    /\ Len(fetches) < 4
    /\ fetches' = IF SKILL_URL_MAP_keys[skill_i] = watch
                   THEN Append(fetches, PageUrl(watch, page_number))
                   ELSE fetches
    /\ UNCHANGED <<pc, browser, quits, listing, auctions, character_map, skill_character_map,
                   skill_i, page_number, watch, held, lastData, err, written, console,
                   saveCalls, args, row, origin, created>>

\* browser.get or a find_element of the while loop raises
FetchPageFails ==
    /\ pc = "while_page"
    /\ fetches' = IF SKILL_URL_MAP_keys[skill_i] = watch
                   THEN Append(fetches, PageUrl(watch, page_number))
                   ELSE fetches
    /\ err' = "WebDriverException"
    /\ pc' = "finally"
    /\ UNCHANGED <<browser, quits, listing, auctions, character_map, skill_character_map,
                   skill_i, page_number, watch, held, lastData, written, console, saveCalls,
                   args, row, origin, created>>

EXCEL_FILE == Some("auctions.xlsx")

CSV_FILE == Some("auctions.csv")

\* save_auctions_to(auctions, excel_file='auctions.xlsx', csv_file='auctions.csv')
Save ==
    /\ pc = "save_auctions_to"
    /\ saveCalls' = saveCalls + 1
    /\ LET out == save_auctions_to(auctions, EXCEL_FILE, CSV_FILE)
       IN  /\ written' = written \o out.written
           /\ console' = console \o out.console
    /\ pc' = "finally"
    /\ UNCHANGED <<browser, quits, listing, auctions, character_map, skill_character_map,
                   skill_i, page_number, fetches, watch, held, lastData, err, args, row, origin, created>>

\* to_excel or to_csv raises: the files before the failing one are written
SaveFails ==
    /\ pc = "save_auctions_to"
    /\ saveCalls' = saveCalls + 1
    /\ \E k \in {0, 1} :
        written' = written \o SubSeq(save_auctions_to(auctions, EXCEL_FILE, CSV_FILE).written, 1, k)
    /\ err' = "OSError"
    /\ pc' = "finally"
    /\ UNCHANGED <<browser, quits, listing, auctions, character_map, skill_character_map,
                   skill_i, page_number, fetches, watch, held, lastData, console, args, row, origin, created>>

\* a plausible slip: quit only after a successful run (no finally)
Finally_on_success ==
    /\ pc = "finally"
    /\ IF err = ""
       THEN browser' = "quit" /\ quits' = quits + 1
       ELSE UNCHANGED <<browser, quits>>
    /\ pc' = "done"
    /\ UNCHANGED <<listing, auctions, character_map, skill_character_map, skill_i,
                   page_number, fetches, watch, held, lastData, err, written, console, saveCalls,
                   args, row, origin, created>>

\* finally: browser.quit(); the exception, if any, goes on out of main
Finally ==
    /\ pc = "finally"
    /\ browser' = "quit"
    /\ quits' = quits + 1
    /\ pc' = "done"
    /\ UNCHANGED <<listing, auctions, character_map, skill_character_map, skill_i,
                   page_number, fetches, watch, held, lastData, err, written, console, saveCalls,
                   args, row, origin, created>>

Next ==
    \/ Start
    \/ StartFails
    \/ FindAuctions
    \/ FindAuctionsFails
    \/ BuildIndex
    \/ ForSkill
    \/ FetchPage
    \/ FetchPageFails
    \/ Save
    \/ SaveFails
    \/ Finally

Spec == Init /\ [][Next]_vars

-----------------------------------------------------------------------------
(* Auction.create on its own: rows built from known tuples, and malformed rows *)

ParseLevels == {1, 80, 120}

ParsePrices == {5, 2000}

\* what may stand before and after the display name in the level+profession cell
Before == {<<>>, <<"E", "l", "i", "t", "e", " ">>} \cup {Profession_value(q) \o <<SPACE>> : q \in Professions}

After == {<<>>} \cup {<<SPACE>> \o Profession_value(q) : q \in Professions}

\* the tuples rows are built from: text is a text containing the profession's display name
Origins ==
    {[name |-> n, level |-> l, profession |-> p, price |-> c,
      text |-> b \o Profession_value(p) \o a] :
        n \in Names, l \in ParseLevels, p \in Professions, c \in ParsePrices,
        b \in Before, a \in After}

\* the row of a tuple: [name, "<level> <text>", "<price> gold"]
BuildRow(o) ==
    <<o.name, str(o.level) \o <<SPACE>> \o o.text, str(o.price) \o <<SPACE>> \o Gold>>

MalformedRows ==
    { <<Bo, Text_12_Rookie, <<"3", " ">> \o Gold>>,
      <<Aria, Text_x_Knight, <<"4", " ">> \o Gold>>,
      <<Aria, <<>>, <<"4", " ">> \o Gold>>,
      <<Bo, Text_9_Royal_Paladin, Gold>> }

InitParse ==
    /\ Fresh
    /\ auctions = <<>>
    /\ listing = <<>>
    /\ watch = "MAGIC"
    /\ args = <<>>
    /\ created = <<>>
    /\ \/ \E o \in Origins : origin = Some(o) /\ row = BuildRow(o)
       \/ origin = None /\ row \in MalformedRows

\* Auction.create(row)
Create ==
    /\ row # <<>>
    /\ created = <<>>
    /\ created' = Some(Auction_create(row))
    /\ UNCHANGED <<mainVars, args, row, origin>>

NextParse == Create

SpecParse == InitParse /\ [][NextParse]_vars

-----------------------------------------------------------------------------
(* save_auctions_to on its own: any enriched list, any pair of paths *)

Enriched(name, profession, lvl, price, skills) ==
    [character |-> [name |-> name, profession |-> profession, lvl |-> lvl, skills |-> skills],
     price |-> price]

SavedAuctions ==
    { Enriched(Aria, "KNIGHT", 120, 5000, [s \in {"SWORD"} |-> 45]),
      Enriched(Bo, "SORCERER", 80, 2000, [s \in {"MAGIC"} |-> 7]),
      Enriched(Aria, "DRUID", 7, 10, NoSkills),
      Enriched(Bo, "PALADIN", 9, 1, [s \in {"DISTANCE", "MAGIC"} |-> IF s = "MAGIC" THEN 7 ELSE 45]) }

ExcelFiles == {None, Some(""), EXCEL_FILE}

CsvFiles == {None, Some(""), CSV_FILE}

InitSave ==
    /\ Fresh
    /\ listing = <<>>
    /\ watch = "MAGIC"
    /\ row = <<>> /\ origin = <<>> /\ created = <<>>
    /\ \E aucs \in SeqsUpTo(SavedAuctions, MaxSaved), e \in ExcelFiles, c \in CsvFiles :
        auctions = aucs /\ args = <<e, c>>

\* save_auctions_to(auctions, excel_file, csv_file)
SaveCall ==
    /\ args # <<>>
    /\ saveCalls = 0
    /\ saveCalls' = 1
    /\ LET out == save_auctions_to(auctions, args[1], args[2])
       IN  /\ written' = written \o out.written
           /\ console' = console \o out.console
    /\ UNCHANGED <<pc, browser, quits, listing, auctions, character_map, skill_character_map,
                   skill_i, page_number, fetches, watch, held, lastData, err,
                   args, row, origin, created>>

NextSave == SaveCall

SpecSave == InitSave /\ [][NextSave]_vars

-----------------------------------------------------------------------------
(* Properties.  `watch` is any one skill (Init draws it from all six), so a  *)
(* property stated for `watch` is checked for every skill.                  *)

\* the characters main hands to update_skills
CharacterAt(i) == auctions[i].character

\* the skill has a character whose profession maps to it
HasPending(skill) ==
    \E i \in DOMAIN auctions : skill \in SkillsOf(CharacterAt(i).profession)

\* the page numbers of `watch`'s leaderboard fetched so far, in the order of the
\* fetches, as they stand in the URLs
WatchedPages ==
    LET own == SelectSeq(fetches, LAMBDA u : u[1] = SKILL_URL_MAP(watch))
    IN  [k \in DOMAIN own |-> own[k][2]]

\* update_skills has returned
UpdateReturned == pc = "save_auctions_to" \/ saveCalls > 0

\* C1: a skill to which no character's profession maps has no page fetched, at any
\* point of the run
C1_NoFetchWithoutPending ==
    ~HasPending(watch) => WatchedPages = <<>>

\* C1 witness: a finished run for a Druid, which went past the Sword leaderboard
C1_Witness ==
    /\ pc = "done" /\ err = "" /\ saveCalls = 1
    /\ Len(auctions) = 1 /\ CharacterAt(1).profession = "DRUID"
    /\ watch = "SWORD" /\ ~HasPending(watch)
    /\ Len(fetches) = 1

\* C2 (as claimed): when update_skills has returned, the pages fetched for a skill
\* with pending characters are 0..N in order, where pages 0..N-1 held data rows and
\* page N held none
C2_FetchesUpToFirstEmptyPage ==
    (UpdateReturned /\ HasPending(watch)) =>
        /\ held # <<>>
        /\ ~held[Len(held)]
        /\ \A k \in 1..(Len(held) - 1) : held[k]
        /\ WatchedPages = [k \in 1..Len(held) |-> str(k - 1)]

\* C3 (as claimed): when update_skills has returned, a character to which `watch`
\* applies and whose name is on a data row of a fetched page holds that row's value
C3_EveryDataRowExamined ==
    UpdateReturned =>
        \A i \in DOMAIN auctions :
            (watch \in SkillsOf(CharacterAt(i).profession) /\ lastData[CharacterAt(i).name] # None)
                => /\ watch \in DOMAIN CharacterAt(i).skills
                   /\ CharacterAt(i).skills[watch] = lastData[CharacterAt(i).name][1]

\* the column of a skill in the exported table
ColumnOf(skill) ==
    CASE skill = "SWORD" -> 5
      [] skill = "AXE" -> 6
      [] skill = "CLUB" -> 7
      [] skill = "DISTANCE" -> 8
      [] skill = "MAGIC" -> 9
      [] skill = "SHIELDING" -> 10

\* the character's name is on no row of any page fetched for `watch`, which applies
\* to its profession
Absent(i) ==
    /\ watch \in SkillsOf(CharacterAt(i).profession)
    /\ lastData[CharacterAt(i).name] = None

\* C4: a character absent from every page of an applicable leaderboard has no key
\* for the skill, update_skills returns without an exception, and every exported
\* table holds None in that skill's column of the character's row
C4_AbsentMeansNoKey ==
    /\ \A i \in DOMAIN auctions : Absent(i) => watch \notin DOMAIN CharacterAt(i).skills
    /\ pc = "save_auctions_to" => err = ""
    /\ \A w \in DOMAIN written : \A i \in DOMAIN auctions :
        Absent(i) => written[w].frame.data[i][ColumnOf(watch)] = None

\* C4 witness: a finished export of a character absent from a leaderboard that held
\* rows of others
C4_Witness ==
    /\ pc = "done" /\ err = "" /\ written # <<>>
    /\ held # <<>> /\ held[1]
    /\ \E i \in DOMAIN auctions : Absent(i)

\* C5: once acquired, the browser is quit exactly once by the time main is left,
\* on success and on failure alike; nothing is fetched after the quit; an exception
\* once raised stays the one that leaves main
C5_ReleasedOncePerRun ==
    /\ [](/\ quits <= 1
          /\ browser = "none" => quits = 0
          /\ browser = "open" => (quits = 0 /\ pc # "done")
          /\ browser = "quit" => (quits = 1 /\ pc = "done")
          /\ (pc = "done" /\ browser = "none") => (err = "WebDriverException" /\ fetches = <<>>))
    /\ [][/\ browser = "quit" => fetches' = fetches
          /\ err # "" => err' = err]_vars

\* C5 witness: main left with the browser quit once after save_auctions_to raised
C5_Witness ==
    /\ pc = "done" /\ browser = "quit" /\ quits = 1
    /\ err = "OSError" /\ saveCalls = 1

\* the first profession, in the order of the enumeration, whose display name the
\* text contains (0 if none)
FirstNamed(text) ==
    LET named == {k \in 1..4 : Contains(text, Profession_value(Profession_values[k]))}
    IN  IF named = {} THEN 0 ELSE CHOOSE k \in named : \A j \in named : k <= j

\* the exceptions that are a ParseError of the error taxonomy: a row that cannot be
\* converted (an unmatched profession, a non-numeric token)
ParseError == {"StopIteration", "ValueError"}

\* what a step of find_auctions owes to row k of the page
CollectedRow(k) ==
    LET text == listing[k][_LVL_PROFESSION_ID + 1]
        first == FirstNamed(text)
    IN  IF first # 0
        THEN /\ Profession_find(text) = Return(Profession_values[first])
             /\ auctions' # <<>> =>
                    auctions'[k].character.profession = Profession_values[first]
        ELSE /\ Auction_create(listing[k]).exc \in ParseError
             /\ auctions' = <<>>
             /\ err' \in ParseError \cup {"WebDriverException"}
             /\ pc' = "finally"

\* C6: over the texts of the auction page that contain a display name, Profession.find
\* returns the first profession of the enumeration whose display name the text
\* contains, and so does every Auction made; a row whose text contains no display
\* name makes Auction.create raise a ParseError, and find_auctions is then left with
\* an exception and no Auction list; a run left that way only quits the browser:
\* it makes no Auction list and exports nothing
C6_FirstMatchOrParseError ==
    /\ [][pc = "find_auctions" => \A k \in DOMAIN listing : CollectedRow(k)]_vars
    /\ [][(pc \in {"finally", "done"}) =>
            (pc' = "done" /\ err' = err /\ auctions' = auctions /\ saveCalls' = saveCalls)]_vars
    /\ []((pc \in {"finally", "done"} /\ err \in ParseError) =>
            (auctions = <<>> /\ saveCalls = 0 /\ written = <<>> /\ console = <<>>))

\* C6 witness: a run over a page with a "12 Rookie" row, ended by StopIteration
C6_Witness ==
    /\ pc = "done" /\ err = "StopIteration" /\ quits = 1
    /\ \E k \in DOMAIN listing : listing[k][_LVL_PROFESSION_ID + 1] = Text_12_Rookie

\* the professions before p in the enumeration
Earlier(p) ==
    {Profession_values[j] : j \in {i \in 1..4 : \E k \in (i + 1)..4 : Profession_values[k] = p}}

\* Auction.create gave back the tuple the row was built from
RoundTrips ==
    LET o == origin[1]
    IN  created[1] = Return(Auction(Character(o.name, o.profession, o.level), o.price))

\* C7 (as claimed): every row built from a tuple, with any text containing the
\* profession's display name, parses back to the tuple
C7_RoundTripAnyText ==
    (origin # None /\ created # <<>>) => RoundTrips

\* C7 (amended): a row built from a tuple parses back to the tuple when the text
\* contains no display name of a profession earlier in the enumeration
C7_RoundTripFirstNamed ==
    (/\ origin # None
     /\ created # <<>>
     /\ \A q \in Earlier(origin[1].profession) : ~Contains(origin[1].text, Profession_value(q)))
        => RoundTrips

\* C7 witness: a Sorcerer row of level 120 whose text also names a Paladin, parsed
C7_Witness ==
    /\ origin # None /\ created # <<>>
    /\ origin[1].profession = "SORCERER" /\ origin[1].level = 120
    /\ Contains(origin[1].text, Profession_value("PALADIN"))
    /\ ~Raised(created[1])

\* the row save_auctions_to is to build for an Auction
ExpectedRow(a) ==
    LET k == a.character.skills
        cell(s) == IF s \in DOMAIN k THEN <<k[s]>> ELSE <<>>
    IN  <<a.character.name, a.price, a.character.profession, a.character.lvl,
          cell("SWORD"), cell("AXE"), cell("CLUB"), cell("DISTANCE"), cell("MAGIC"),
          cell("SHIELDING")>>

ExpectedFrame ==
    [columns |-> <<"name", "price", "profession", "lvl", "sword", "axe", "club", "dist",
                   "magic", "shielding">>,
     data |-> [i \in DOMAIN auctions |-> ExpectedRow(auctions[i])]]

\* a path argument is given: neither None nor the empty string
Given(path) == path # None /\ path # Some("")

\* C8: after save_auctions_to, every table written or printed has the ten columns and
\* one row per Auction in input order; the table is printed iff neither path is
\* given, and then nothing is written; a given path has its file written
C8_TableAndSinks ==
    saveCalls = 1 =>
        /\ \A w \in DOMAIN written : written[w].frame = ExpectedFrame
        /\ \A c \in DOMAIN console : console[c] = ExpectedFrame
        /\ (console # <<>>) <=> (~Given(args[1]) /\ ~Given(args[2]))
        /\ Len(console) <= 1
        /\ console # <<>> => written = <<>>
        /\ Given(args[1]) <=>
              (\E w \in DOMAIN written : written[w].format = "excel" /\ written[w].path = args[1][1])
        /\ Given(args[2]) <=>
              (\E w \in DOMAIN written : written[w].format = "csv" /\ written[w].path = args[2][1])
        /\ Len(written) <= 2

\* C8 witness: two Auctions, the dearer first, written to both files
C8_Witness ==
    /\ saveCalls = 1 /\ Len(written) = 2 /\ console = <<>>
    /\ Len(auctions) = 2 /\ auctions[1].price > auctions[2].price

\* every key of a character's skills is a skill of its own profession, Shielding is
\* no key, and no Shielding page is fetched
OnlyOwnSkills ==
    /\ \A i \in DOMAIN auctions :
        /\ DOMAIN CharacterAt(i).skills \subseteq SkillsOf(CharacterAt(i).profession)
        /\ "SHIELDING" \notin DOMAIN CharacterAt(i).skills
    /\ watch = "SHIELDING" => WatchedPages = <<>>

\* C9 (as claimed): with or without two characters sharing a name
C9_OnlyOwnSkillsAnyList == OnlyOwnSkills

\* C9 (amended): when the characters that share a name share the profession
C9_OnlyOwnSkillsSameProfession ==
    (\A i, j \in DOMAIN auctions :
        CharacterAt(i).name = CharacterAt(j).name
            => CharacterAt(i).profession = CharacterAt(j).profession)
        => OnlyOwnSkills

\* C9 witness: two Knights of one name, enriched with a Sword value, and a finished run
C9_Witness ==
    /\ pc = "done" /\ err = ""
    /\ Len(auctions) = 2
    /\ CharacterAt(1).name = CharacterAt(2).name
    /\ CharacterAt(1).profession = "KNIGHT" /\ CharacterAt(2).profession = "KNIGHT"
    /\ "SWORD" \in DOMAIN CharacterAt(2).skills

\* what of an Auction list never changes once collected
Fixed(aucs) ==
    [i \in DOMAIN aucs |->
        <<aucs[i].character.name, aucs[i].character.profession, aucs[i].character.lvl,
          aucs[i].price>>]

\* C10: the auction page is the first fetch and is fetched once; no URL is fetched
\* twice; save_auctions_to is called at most once, after the loop over the skills has
\* ended with the skill paginated if it has pending characters, and never after find_auctions or
\* update_skills raised; once collected, the Auction list keeps its length, its
\* order and every name, profession, level and price
C10_StagesInOrder ==
    /\ [](/\ \A k \in DOMAIN fetches : (fetches[k][1] = AUCTIONS_URL_TEMPLATE) <=> (k = 1)
          /\ \A k, l \in DOMAIN fetches : fetches[k] = fetches[l] => k = l
          /\ saveCalls <= 1
          /\ UpdateReturned =>
                /\ skill_i > Len(SKILL_URL_MAP_keys)
                /\ fetches # <<>>
                /\ HasPending(watch) => WatchedPages # <<>>
                /\ Len(auctions) = Len(listing)
          /\ err \in ParseError \cup {"WebDriverException"} =>
                (saveCalls = 0 /\ written = <<>> /\ console = <<>>))
    /\ [][/\ auctions # <<>> => Fixed(auctions') = Fixed(auctions)
          /\ pc = "save_auctions_to" => auctions' = auctions]_vars

\* C10 witness: a finished run over two Auctions with leaderboard pages fetched and
\* the tables written
C10_Witness ==
    /\ pc = "done" /\ err = "" /\ saveCalls = 1 /\ Len(written) = 2
    /\ Len(auctions) = 2 /\ Len(fetches) >= 3
    /\ \E i \in DOMAIN auctions : CharacterAt(i).skills # NoSkills

====
